---------------------------- MODULE Spec2Model ----------------------------
(***************************************************************************)
(* A model of wrangle.py: the field normalizers (update_city_name,         *)
(* update_street_name, update_postcode), the record extractor              *)
(* (extract_node, extract_way, extract_element) and the pipeline driver    *)
(* (process_map).                                                          *)
(*                                                                         *)
(* A Python string is a sequence of one-character strings.                 *)
(***************************************************************************)
EXTENDS Integers, Sequences, FiniteSets, TLC

VARIABLES
  arg,      \* the argument of the normalizer under study
  ret,      \* the successive results of the normalizer applied to arg
  element,  \* the source element handed to extract_element
  shaped,   \* what extract_element returned (or raised) for element
  pc,       \* process_map: the position in the driver
  validate, \* process_map: the validate parameter
  stream,   \* process_map: the elements get_element has yielded so far
  el,       \* process_map: the shaped element being written
  tables,   \* process_map: the rows of the five csv files
  log       \* process_map: the write calls made, in order

vars == <<arg, ret, element, shaped, pc, validate, stream, el, tables, log>>

(***************************************************************************)
(* Bounds of the model.                                                    *)
(***************************************************************************)
MaxStreetLen == 5
MaxCityLen == 4
MaxDigitRun == 6
MaxKeyLen == 3
MaxChildren == 3
MaxElements == 3

(***************************************************************************)
(* Characters and the classes the regular expressions use.                 *)
(***************************************************************************)
Lowercase == <<"a","b","c","d","e","f","g","h","i","j","k","l","m",
               "n","o","p","q","r","s","t","u","v","w","x","y","z">>
Uppercase == <<"A","B","C","D","E","F","G","H","I","J","K","L","M",
               "N","O","P","Q","R","S","T","U","V","W","X","Y","Z">>
Range(f) == {f[i] : i \in DOMAIN f}
Digits == {"0","1","2","3","4","5","6","7","8","9"}
\* \s : the ASCII whitespace characters
Whitespace == {" ", "\t", "\n", "\r", "\f"}
\* \w : letters, digits and the underscore
WordChars == Range(Lowercase) \cup Range(Uppercase) \cup Digits \cup {"_"}

IsDigit(c) == c \in Digits
IsSpace(c) == c \in Whitespace
IsWord(c) == c \in WordChars

IndexOf(f, c) == CHOOSE i \in DOMAIN f : f[i] = c
\* str.upper / str.lower on one character
upper(c) == IF c \in Range(Lowercase) THEN Uppercase[IndexOf(Lowercase, c)] ELSE c
lower(c) == IF c \in Range(Uppercase) THEN Lowercase[IndexOf(Uppercase, c)] ELSE c

\* s[i:j] with 1-based inclusive bounds; empty when j < i
Slice(s, i, j) == [n \in 1..(j - i + 1) |-> s[i + n - 1]]

\* every string over the alphabet of length at most n
StringsUpTo(alphabet, n) == UNION {[1..m -> alphabet] : m \in 0..n}

(***************************************************************************)
(* update_city_name                                                        *)
(***************************************************************************)
\* str.rstrip(chars): drop the trailing characters that are in chars
RECURSIVE rstrip(_, _)
rstrip(s, chars) ==
  IF Len(s) > 0 /\ s[Len(s)] \in chars
  THEN rstrip(Slice(s, 1, Len(s) - 1), chars)
  ELSE s

\* str.split(): the maximal runs of non-whitespace characters
RECURSIVE split(_)
split(s) ==
  IF Len(s) = 0 THEN <<>>
  ELSE IF IsSpace(s[1]) THEN split(Tail(s))
  ELSE LET stops == {i \in 1..Len(s) : IsSpace(s[i])}
           stop == IF stops = {} THEN Len(s) + 1
                   ELSE CHOOSE i \in stops : \A j \in stops : i <= j
       IN <<Slice(s, 1, stop - 1)>> \o split(Slice(s, stop, Len(s)))

\* str.capitalize(): first character upper-cased, the rest lower-cased
capitalize(w) == [i \in 1..Len(w) |-> IF i = 1 THEN upper(w[i]) ELSE lower(w[i])]

\* ' '.join(words)
RECURSIVE join(_)
join(words) ==
  IF Len(words) = 0 THEN <<>>
  ELSE IF Len(words) = 1 THEN words[1]
  ELSE words[1] \o <<" ">> \o join(Tail(words))

\* string.capwords(s): ' '.join(x.capitalize() for x in s.split())
capwords(s) == LET ws == split(s) IN join([i \in 1..Len(ws) |-> capitalize(ws[i])])

\* the characters of the argument of rstrip, ', WA'
StateSuffixChars == {",", " ", "W", "A"}

\* `if ', WA' or ',WA' in name` : the non-empty literal ', WA' is true, so
\* the test is true of every name
CityTest(name) == TRUE

update_city_name(name) ==
  LET stripped == IF CityTest(name) THEN rstrip(name, StateSuffixChars) ELSE name
  IN capwords(stripped)

(***************************************************************************)
(* update_street_name                                                      *)
(***************************************************************************)
\* a table in which an expansion is itself an abbreviation of the table
mapping_chained ==
  (<<"S","t">> :> <<"S","t",".">>) @@
  (<<"S","t",".">> :> <<"S","t","r","e","e","t">>) @@
  (<<"R","d",".">> :> <<"R","o","a","d">>)

mapping ==
  (<<"S","t">> :> <<"S","t","r","e","e","t">>) @@
  (<<"S","t",".">> :> <<"S","t","r","e","e","t">>) @@
  (<<"R","d",".">> :> <<"R","o","a","d">>) @@
  (<<"A","v","e">> :> <<"A","v","e","n","u","e">>) @@
  (<<"N","E">> :> <<"N","o","r","t","h","e","a","s","t">>) @@
  (<<"N","W">> :> <<"N","o","r","t","h","w","e","s","t">>) @@
  (<<"S","E">> :> <<"S","o","u","t","h","e","a","s","t">>) @@
  (<<"S","W">> :> <<"S","o","u","t","h","w","e","s","t">>) @@
  (<<"W","Y">> :> <<"W","a","y">>) @@
  (<<"L","n">> :> <<"L","a","n","e">>) @@
  (<<"l","n">> :> <<"L","a","n","e">>)

\* \b at the gap before s[p] (p in 1..Len(s)+1)
WordBoundary(s, p) ==
  LET before == p > 1 /\ IsWord(s[p - 1])
      after == p <= Len(s) /\ IsWord(s[p])
  IN before # after

\* where $ lets a match of \S+ end: at the end of the string, or just
\* before a newline that ends the string; 0 when the string ends in other
\* whitespace or is empty
StreetMatchEnd(s) ==
  IF Len(s) = 0 THEN 0
  ELSE IF ~IsSpace(s[Len(s)]) THEN Len(s)
  ELSE IF s[Len(s)] = "\n" THEN Len(s) - 1
  ELSE 0

\* street_type_re = \b\S+\.?$ , search: the leftmost position at a word
\* boundary from which only non-whitespace runs up to the match end;
\* 0 when there is no match
StreetMatchStart(s) ==
  LET e == StreetMatchEnd(s)
      starts == {p \in 1..e : WordBoundary(s, p) /\ \A i \in p..e : ~IsSpace(s[i])}
  IN IF starts = {} THEN 0 ELSE CHOOSE p \in starts : \A q \in starts : p <= q

update_street_name(name, map) ==
  LET p == StreetMatchStart(name)
      e == StreetMatchEnd(name)
      street_type == Slice(name, p, e)
  IN IF p # 0 /\ street_type \in DOMAIN map
     THEN \* sub: the match is the only one, nothing but a newline follows it
          Slice(name, 1, p - 1) \o map[street_type] \o Slice(name, e + 1, Len(name))
     ELSE name

(***************************************************************************)
(* update_postcode                                                         *)
(***************************************************************************)
AllDigits(s, i, j) == \A n \in i..j : IsDigit(s[n])

\* \d{5}(?:[-\s]\d{4})? matching the whole of t
PostcodeBody(t) ==
  \/ Len(t) = 5 /\ AllDigits(t, 1, 5)
  \/ /\ Len(t) = 10
     /\ AllDigits(t, 1, 5)
     /\ (t[6] = "-" \/ IsSpace(t[6]))
     /\ AllDigits(t, 7, 10)

\* postcode_format_re = ^\d{5}(?:[-\s]\d{4})?$ , search: $ matches at the
\* end of the string and also just before a newline that ends it
postcode_format_re(s) ==
  \/ PostcodeBody(s)
  \/ Len(s) > 0 /\ s[Len(s)] = "\n" /\ PostcodeBody(Slice(s, 1, Len(s) - 1))

\* returns (invalid, postcode)
update_postcode(postcode) ==
  IF postcode_format_re(postcode)
  THEN <<FALSE, Slice(postcode, 1, IF Len(postcode) < 5 THEN Len(postcode) ELSE 5)>>
  ELSE <<TRUE, postcode>>


(***************************************************************************)
(* extract_node, extract_way, extract_element                              *)
(*                                                                         *)
(* An element is [tag, attrib, children]: attrib maps the names of the     *)
(* attributes present to their values, children are its child elements in  *)
(* document order.                                                         *)
(***************************************************************************)
NODE_FIELDS == <<"id", "lat", "lon", "user", "uid", "version", "changeset", "timestamp">>
NODE_TAGS_FIELDS == <<"id", "key", "value", "type">>
WAY_FIELDS == <<"id", "user", "uid", "version", "changeset", "timestamp">>
WAY_TAGS_FIELDS == <<"id", "key", "value", "type">>
WAY_NODES_FIELDS == <<"id", "node_id", "position">>

\* the character class with the = left out
PROBLEMCHARS_without_equals(k) ==
  \E i \in 1..Len(k) :
    k[i] \in {"+", "/", "&", "<", ">", ";", "'", "\"", "?", "%", "#", "$",
              "@", ",", ".", " ", "\t", "\r", "\n"}

\* PROBLEMCHARS = [=\+/&<>;\'"\?%#$@\,\. \t\r\n] , search
PROBLEMCHARS(k) ==
  \E i \in 1..Len(k) :
    k[i] \in {"=", "+", "/", "&", "<", ">", ";", "'", "\"", "?", "%", "#", "$",
              "@", ",", ".", " ", "\t", "\r", "\n"}

HasColon(k) == \E i \in 1..Len(k) : k[i] = ":"
FirstColon(k) == CHOOSE i \in 1..Len(k) : k[i] = ":" /\ \A j \in 1..(i - 1) : k[j] # ":"
LastColon(k) == CHOOSE i \in 1..Len(k) : k[i] = ":" /\ \A j \in (i + 1)..Len(k) : k[j] # ":"
\* k.rsplit(":", 1): the split at the last colon instead of the first
rsplit_colon(k) ==
  <<Slice(k, 1, LastColon(k) - 1), Slice(k, LastColon(k) + 1, Len(k))>>

\* k.split(":", 1) of a k that holds a colon
split_colon(k) ==
  <<Slice(k, 1, FirstColon(k) - 1), Slice(k, FirstColon(k) + 1, Len(k))>>

\* element.iter(name): the children called name, in document order
iter(elem, name) == SelectSeq(elem.children, LAMBDA c : c.tag = name)

\* `key == "street" or "street:name"` : the non-empty literal is true, so
\* the test is true of every key
StreetTest(key) == key = <<"s","t","r","e","e","t">> \/ TRUE

fixme == <<"f","i","x","m","e",":">>

\* the body of the loop over the tags of a node, for a tag that is kept
node_tag(id, tag, default_tag_type) ==
  LET k == tag.attrib["k"]
      key == IF HasColon(k) THEN split_colon(k)[2] ELSE k
      type == IF HasColon(k) THEN split_colon(k)[1] ELSE default_tag_type
      raw == tag.attrib["v"]
      city == IF key = <<"c","i","t","y">> THEN update_city_name(raw) ELSE raw
      street == IF StreetTest(key) THEN update_street_name(city, mapping) ELSE city
      checked == update_postcode(street)
      value == IF key = <<"p","o","s","t","c","o","d","e">>
               THEN IF checked[1] THEN fixme \o checked[2] ELSE checked[2]
               ELSE street
  IN [id |-> id, key |-> key, value |-> value, type |-> type]

\* the body of the loop over the tags of a way, for a tag that is kept
way_tag(id, tag, default_tag_type) ==
  LET k == tag.attrib["k"]
      key == IF HasColon(k) THEN split_colon(k)[2] ELSE k
      type == IF HasColon(k) THEN split_colon(k)[1] ELSE default_tag_type
      raw == tag.attrib["v"]
      city == IF key = <<"c","i","t","y">> THEN update_city_name(raw) ELSE raw
      street == IF StreetTest(key) THEN update_street_name(city, mapping) ELSE city
      checked == update_postcode(street)
      value == IF key = <<"p","o","s","t","c","o","d","e">>
               THEN IF checked[1] THEN fixme \o checked[2] ELSE checked[2]
               ELSE street
  IN [id |-> id, key |-> key, value |-> value, type |-> type]

\* element.attrib[key] raises KeyError for an attribute that is absent
MissingAttr(elem, fields) == \E i \in 1..Len(fields) : fields[i] \notin DOMAIN elem.attrib

\* tag.attrib["v"] and tag.attrib["k"] are read of every tag
MissingTagAttr(elem) ==
  \E i \in 1..Len(iter(elem, "tag")) :
    {"k", "v"} \ DOMAIN iter(elem, "tag")[i].attrib # {}

\* nd.attrib["ref"] is read of every nd
MissingRef(elem) ==
  \E i \in 1..Len(iter(elem, "nd")) : "ref" \notin DOMAIN iter(elem, "nd")[i].attrib

KeyError == [status |-> "KeyError"]

extract_node(elem, node_attr_fields, default_tag_type) ==
  IF MissingAttr(elem, node_attr_fields) \/ MissingTagAttr(elem) THEN KeyError
  ELSE LET attribs == [f \in Range(node_attr_fields) |-> elem.attrib[f]]
           kept == SelectSeq(iter(elem, "tag"), LAMBDA t : ~PROBLEMCHARS(t.attrib["k"]))
           tags == [i \in 1..Len(kept) |-> node_tag(attribs["id"], kept[i], default_tag_type)]
       IN [status |-> "ok", node |-> attribs, node_tags |-> tags]

\* enumerate(element.iter("nd"), 1): the positions counted from 1
way_nodes_from_one(id, nds) ==
  [i \in 1..Len(nds) |-> [id |-> id, node_id |-> nds[i].attrib["ref"], position |-> i]]

\* the loop `for counter, nd in enumerate(element.iter("nd"))`
way_nodes(id, nds) ==
  [i \in 1..Len(nds) |-> [id |-> id, node_id |-> nds[i].attrib["ref"], position |-> i - 1]]

extract_way(elem, way_attr_fields, default_tag_type) ==
  IF MissingAttr(elem, way_attr_fields) \/ MissingTagAttr(elem) \/ MissingRef(elem)
  THEN KeyError
  ELSE LET attribs == [f \in Range(way_attr_fields) |-> elem.attrib[f]]
           kept == SelectSeq(iter(elem, "tag"), LAMBDA t : ~PROBLEMCHARS(t.attrib["k"]))
           tags == [i \in 1..Len(kept) |-> way_tag(attribs["id"], kept[i], default_tag_type)]
           nodes == way_nodes(attribs["id"], iter(elem, "nd"))
       IN [status |-> "ok", way |-> attribs, way_nodes |-> nodes, way_tags |-> tags]

regular == <<"r","e","g","u","l","a","r">>

extract_element(elem, default_tag_type) ==
  IF elem.tag = "node" THEN extract_node(elem, NODE_FIELDS, default_tag_type)
  ELSE IF elem.tag = "way" THEN extract_way(elem, WAY_FIELDS, default_tag_type)
  ELSE [status |-> "None"]

(***************************************************************************)
(* process_map and its helpers                                             *)
(***************************************************************************)
FIELDS ==
  [nodes |-> NODE_FIELDS, nodes_tags |-> NODE_TAGS_FIELDS, ways |-> WAY_FIELDS,
   ways_nodes |-> WAY_NODES_FIELDS, ways_tags |-> WAY_TAGS_FIELDS]

DigitChars == <<"0","1","2","3","4","5","6","7","8","9">>
\* str(n) of a natural number
RECURSIVE str(_)
str(n) == IF n < 10 THEN <<DigitChars[n + 1]>> ELSE str(n \div 10) \o <<DigitChars[(n % 10) + 1]>>

\* DictWriter.writeheader: the row of the field names
header(fields) == [i \in 1..Len(fields) |-> <<fields[i]>>]

\* DictWriter.writerow: the values of the dictionary in the order of the
\* fields, a number written in decimal
writerow(row, fields) ==
  [i \in 1..Len(fields) |->
     IF fields[i] = "position" THEN str(row[fields[i]]) ELSE row[fields[i]]]

\* DictWriter.writerows
writerows(rows, fields) == [i \in 1..Len(rows) |-> writerow(rows[i], fields)]

\* get_element(file_in, tags): the kinds of element it yields
get_element_tags == {"node", "way"}

\* validate_element raises when validator.validate(...) is not True
validate_element_ignores(valid) == FALSE

validate_element(valid) == valid # TRUE

\* the statement that follows the write to a table, in the order of the
\* statements of the loop body, with the writes of a way swapped
next_pc_tags_first(at) ==
  CASE at = "nodes" -> "nodes_tags"
    [] at = "nodes_tags" -> "loop"
    [] at = "ways" -> "ways_tags"
    [] at = "ways_tags" -> "ways_nodes"
    [] at = "ways_nodes" -> "loop"

\* the statement that follows the write to a table, in the order of the
\* statements of the loop body
next_pc(at) ==
  CASE at = "nodes" -> "nodes_tags"
    [] at = "nodes_tags" -> "loop"
    [] at = "ways" -> "ways_nodes"
    [] at = "ways_nodes" -> "ways_tags"
    [] at = "ways_tags" -> "loop"

(***************************************************************************)
(* The state of the parts of the program that are not running.             *)
(***************************************************************************)
TABLES == {"nodes", "nodes_tags", "ways", "ways_nodes", "ways_tags"}
NoElement == [tag |-> "none", attrib |-> <<>>, children |-> <<>>]
NotShaped == [status |-> "idle"]

NormalizerIdle == arg = <<>> /\ ret = <<>>
ExtractorIdle == element = NoElement /\ shaped = NotShaped
DriverIdle ==
  /\ pc = "idle"
  /\ validate = FALSE
  /\ stream = <<>>
  /\ el = NotShaped
  /\ tables = [t \in TABLES |-> <<>>]
  /\ log = <<>>

(***************************************************************************)
(* update_postcode, applied to one string.                                 *)
(***************************************************************************)
DigitCycle == <<"9","8","1","0","4","7","2","5","3","6">>
\* n digits, starting at the from-th digit of the cycle
DigitRun(from, n) == [i \in 1..n |-> DigitCycle[((from + i - 2) % 10) + 1]]

PostcodeSeparators ==
  {<<>>, <<"-">>, <<" ">>, <<"\t">>, <<"\n">>, <<"a">>, <<"_">>, <<"-","-">>}
PostcodeTails == {<<>>, <<"\n">>, <<" ">>, <<"\n","\n">>, <<"x">>}
PostcodeInputs ==
  {DigitRun(1, n) \o sep \o DigitRun(6, m) \o tail :
     n \in 0..MaxDigitRun, sep \in PostcodeSeparators,
     m \in 0..MaxDigitRun, tail \in PostcodeTails}
  \cup {<<"A","B","C","D","E">>}

InitPostcode ==
  /\ arg \in PostcodeInputs
  /\ ret = <<>>
  /\ ExtractorIdle
  /\ DriverIdle

CallPostcode ==
  /\ ret = <<>>
  /\ ret' = <<update_postcode(arg)>>
  /\ UNCHANGED <<arg, element, shaped, pc, validate, stream, el, tables, log>>

NextPostcode == CallPostcode
SpecPostcode == InitPostcode /\ [][NextPostcode]_vars

(***************************************************************************)
(* update_street_name, applied to a name and then to its own result.       *)
(***************************************************************************)
StreetAlphabet == {"S", "t", ".", " ", "(", "\n"}
StreetExamples ==
  { <<"M","a","i","n"," ","S","t">>,
    <<"M","a","i","n"," ","(","S","t">>,
    <<"E","l","m"," ","R","d",".">>,
    <<"1"," ","A","v","e"," ","N","E">>,
    <<"O","a","k"," ","L","n","\n">>,
    <<"O","a","k"," ","l","n"," ">>,
    <<"M","a","i","n"," ","B","o","u","l","e","v","a","r","d">> }
StreetInputs == StringsUpTo(StreetAlphabet, MaxStreetLen) \cup StreetExamples

InitStreet ==
  /\ arg \in StreetInputs
  /\ ret = <<>>
  /\ ExtractorIdle
  /\ DriverIdle

CallStreet ==
  /\ Len(ret) < 2
  /\ ret' = Append(ret, update_street_name(IF ret = <<>> THEN arg ELSE ret[Len(ret)],
                                           mapping))
  /\ UNCHANGED <<arg, element, shaped, pc, validate, stream, el, tables, log>>

NextStreet == CallStreet
SpecStreet == InitStreet /\ [][NextStreet]_vars

(***************************************************************************)
(* update_city_name, applied to one name.                                  *)
(***************************************************************************)
CityAlphabet == {"a", "A", "W", ",", " "}
CityExamples ==
  { <<"s","e","a","t","t","l","e",","," ","W","A">>,
    <<"k","e","n","t",",","W","A">>,
    <<"T","A","C","O","M","A">>,
    <<"n","e","w"," "," ","y","O","R","K"," ">> }
CityInputs == StringsUpTo(CityAlphabet, MaxCityLen) \cup CityExamples

InitCity ==
  /\ arg \in CityInputs
  /\ ret = <<>>
  /\ ExtractorIdle
  /\ DriverIdle

CallCity ==
  /\ ret = <<>>
  /\ ret' = <<update_city_name(arg)>>
  /\ UNCHANGED <<arg, element, shaped, pc, validate, stream, el, tables, log>>

NextCity == CallCity
SpecCity == InitCity /\ [][NextCity]_vars

(***************************************************************************)
(* Properties of the normalizers.                                          *)
(***************************************************************************)
EndsWith(s, suffix) ==
  Len(s) >= Len(suffix) /\ Slice(s, Len(s) - Len(suffix) + 1, Len(s)) = suffix

\* C2: update_postcode(s) is (False, first five characters of s) exactly
\* when s is five digits, or five digits, one hyphen or one space, and four
\* digits; for every other s it is (True, s).
C2_PostcodeExactFormats ==
  ret # <<>> =>
    LET s == arg
        exact == \/ Len(s) = 5 /\ AllDigits(s, 1, 5)
                 \/ /\ Len(s) = 10
                    /\ AllDigits(s, 1, 5)
                    /\ s[6] \in {"-", " "}
                    /\ AllDigits(s, 7, 10)
    IN ret[1] = IF exact THEN <<FALSE, Slice(s, 1, 5)>> ELSE <<TRUE, s>>

\* the last index of s that holds a non-whitespace character, 0 if none
LastNonSpace(s) ==
  LET I == {i \in 1..Len(s) : ~IsSpace(s[i])}
  IN IF I = {} THEN 0 ELSE CHOOSE i \in I : \A j \in I : j <= i

\* the start of the run of non-whitespace characters that ends at te
TokenStart(s, te) ==
  CHOOSE i \in 1..te :
    /\ \A j \in i..te : ~IsSpace(s[j])
    /\ (i = 1 \/ IsSpace(s[i - 1]))

\* r is s with the token ending at te looked up whole in the table
FinalTokenRule(s, r, te) ==
  IF te = 0 THEN r = s
  ELSE LET ts == TokenStart(s, te)
           token == Slice(s, ts, te)
       IN IF token \in DOMAIN mapping
          THEN r = Slice(s, 1, ts - 1) \o mapping[token] \o Slice(s, te + 1, Len(s))
          ELSE r = s

\* C5: update_street_name looks up the whole final whitespace-delimited
\* token: if it is a key of the table the result is the name with that token
\* replaced by its expansion, otherwise the result is the name. The final
\* token is read both ways: the last token of the name, or the token that
\* ends the name (none when the name ends in whitespace).
C5_StreetFinalToken ==
  ret # <<>> =>
    \/ FinalTokenRule(arg, ret[1], LastNonSpace(arg))
    \/ FinalTokenRule(arg, ret[1],
                      IF LastNonSpace(arg) = Len(arg) THEN Len(arg) ELSE 0)

\* C6: update_city_name strips the suffix ", WA" or ",WA" only from a name
\* that ends with it, and title-cases the tokens; a name that does not end
\* with the suffix is title-cased with nothing removed from it.
C6_CityStripOnlySuffix ==
  ret # <<>> =>
    LET long == <<",", " ", "W", "A">>
        short == <<",", "W", "A">>
        base == IF EndsWith(arg, long) THEN Slice(arg, 1, Len(arg) - 4)
                ELSE IF EndsWith(arg, short) THEN Slice(arg, 1, Len(arg) - 3)
                ELSE arg
    IN ret[1] = capwords(base)

\* C9: update_street_name applied to its own result changes nothing.
C9_StreetIdempotent == Len(ret) = 2 => ret[2] = ret[1]

\* a name whose abbreviation was expanded, normalized a second time
C9_Witness == Len(ret) = 2 /\ ret[1] # arg

(***************************************************************************)
(* extract_element, applied to one element.                                *)
(***************************************************************************)
Tag(k, v) == [tag |-> "tag", attrib |-> [k |-> k, v |-> v]]
Nd(ref) == [tag |-> "nd", attrib |-> [ref |-> ref]]

\* the attributes of an element: its id, and every other field with a value
\* that names the field
Attrib(fields, id) == [f \in Range(fields) |-> IF f = "id" THEN id ELSE <<f>>]
Without(a, f) == [g \in DOMAIN a \ {f} |-> a[g]]
With(a, f, v) == [g \in DOMAIN a \cup {f} |-> IF g = f THEN v ELSE a[g]]

ChildPool ==
  { Tag(<<"a","d","d","r",":","p","o","s","t","c","o","d","e">>,
        <<"9","8","1","9","9","-","1","2","3","4">>),
    Tag(<<"a","d","d","r",":","p","o","s","t","c","o","d","e">>, <<"9","8","1","9">>),
    Tag(<<"p","o","s","t","c","o","d","e">>, <<"9","8"," ","S","t">>),
    Tag(<<"a","d","d","r",":","c","i","t","y">>, <<"k","e","n","t",","," ","W","A">>),
    Tag(<<"a","d","d","r",":","s","t","r","e","e","t">>, <<"E","l","m"," ","S","t">>),
    Tag(<<"a",":","b",":","c">>, <<"x">>),
    Tag(<<"b","a","d"," ","k","e","y">>, <<"x">>),
    [tag |-> "tag", attrib |-> [k |-> <<"n","a","m","e">>]],
    Nd(<<"7">>),
    Nd(<<"8">>),
    [tag |-> "nd", attrib |-> <<>>] }

ChildSeqs == UNION {[1..n -> ChildPool] : n \in 0..MaxChildren}

KeyAlphabet == {"a", ":", "="}
KeyElements ==
  {[tag |-> kind, attrib |-> Attrib(NODE_FIELDS, <<"1">>), children |-> <<Tag(k, <<"x">>)>>] :
     kind \in {"node", "way"}, k \in StringsUpTo(KeyAlphabet, MaxKeyLen)}

ElementHeads ==
  { <<"node", Attrib(NODE_FIELDS, <<"1">>)>>,
    <<"node", Without(Attrib(NODE_FIELDS, <<"1">>), "uid")>>,
    <<"node", With(Attrib(NODE_FIELDS, <<"1">>), "visible", <<"true">>)>>,
    <<"way", Attrib(WAY_FIELDS, <<"2">>)>>,
    <<"way", Without(Attrib(WAY_FIELDS, <<"2">>), "uid")>>,
    <<"relation", Attrib(WAY_FIELDS, <<"3">>)>> }

ExtractElements ==
  {[tag |-> h[1], attrib |-> h[2], children |-> c] : h \in ElementHeads, c \in ChildSeqs}
  \cup KeyElements

InitExtract ==
  /\ element \in ExtractElements
  /\ shaped = NotShaped
  /\ NormalizerIdle
  /\ DriverIdle

CallExtract ==
  /\ shaped = NotShaped
  /\ shaped' = extract_element(element, regular)
  /\ UNCHANGED <<arg, ret, element, pc, validate, stream, el, tables, log>>

NextExtract == CallExtract
SpecExtract == InitExtract /\ [][NextExtract]_vars

(***************************************************************************)
(* Properties of the extractor.                                            *)
(***************************************************************************)
Extracted == shaped.status = "ok"
ShapedTags == IF element.tag = "node" THEN shaped.node_tags ELSE shaped.way_tags

ForbiddenChars ==
  {"=", "+", "/", "&", "<", ">", ";", "'", "\"", "?", "%", "#", "$", "@", ",", ".",
   " ", "\t", "\r", "\n"}
HasForbidden(k) == \E i \in 1..Len(k) : k[i] \in ForbiddenChars

\* the tag children of the element, and those whose key is clean
TagChildren == SelectSeq(element.children, LAMBDA c : c.tag = "tag")
CleanTags == SelectSeq(TagChildren, LAMBDA c : ~HasForbidden(c.attrib["k"]))
NdChildren == SelectSeq(element.children, LAMBDA c : c.tag = "nd")

\* C1: the Tag Record of a tag whose key after the split is "postcode" and
\* whose raw v is not a valid postcode has the value "fixme:" followed by
\* the raw v.
C1_FixmeKeepsRawValue ==
  Extracted =>
    \A i \in 1..Len(ShapedTags) :
      LET raw == CleanTags[i].attrib["v"]
      IN (ShapedTags[i].key = <<"p","o","s","t","c","o","d","e">>
            /\ ~postcode_format_re(raw))
         => ShapedTags[i].value = <<"f","i","x","m","e",":">> \o raw

\* C3: a raw key with a colon gives type = the part before the first colon
\* and key = all that follows it; a raw key without a colon gives type
\* "regular" and key = the raw key; id is the id of the parent element.
C3_KeyTypeSplit ==
  Extracted =>
    \A i \in 1..Len(ShapedTags) :
      LET k == CleanTags[i].attrib["k"]
          r == ShapedTags[i]
          colons == {p \in 1..Len(k) : k[p] = ":"}
      IN /\ r.id = element.attrib["id"]
         /\ colons = {} => r.type = <<"r","e","g","u","l","a","r">> /\ r.key = k
         /\ colons # {} =>
              \E p \in colons :
                /\ \A q \in colons : p <= q
                /\ r.type = Slice(k, 1, p - 1)
                /\ r.key = Slice(k, p + 1, Len(k))

\* a record of a key with two colons, and one of a key with none
C3_Witness ==
  /\ Extracted
  /\ \E i \in 1..Len(ShapedTags) :
       Cardinality({p \in 1..Len(CleanTags[i].attrib["k"]) :
                      CleanTags[i].attrib["k"][p] = ":"}) = 2
  /\ \E i \in 1..Len(ShapedTags) : ~HasColon(CleanTags[i].attrib["k"])

\* the raw key a record was made from
RawKeyOf(r) ==
  IF r.type = <<"r","e","g","u","l","a","r">> THEN r.key ELSE r.type \o <<":">> \o r.key

\* C4: the Tag Records are, in document order, one for each tag child whose
\* key holds no forbidden character, and none for the others.
C4_ForbiddenKeysDropped ==
  Extracted =>
    /\ Len(ShapedTags) = Len(CleanTags)
    /\ \A i \in 1..Len(ShapedTags) : RawKeyOf(ShapedTags[i]) = CleanTags[i].attrib["k"]

\* a tag with a forbidden key dropped from between two tags that are kept
C4_Witness ==
  /\ Extracted
  /\ Len(TagChildren) = 3
  /\ HasForbidden(TagChildren[2].attrib["k"])
  /\ Len(ShapedTags) = 2
  /\ ShapedTags[1].key # ShapedTags[2].key

\* C8: a way with nd children r_0 .. r_(n-1) gives n Way-Node Records in
\* that order, the j-th with the id of the way, node_id the ref of r_j and
\* position j.
C8_WayNodePositions ==
  (Extracted /\ element.tag = "way") =>
    /\ Len(shaped.way_nodes) = Len(NdChildren)
    /\ \A j \in 0..(Len(NdChildren) - 1) :
         /\ shaped.way_nodes[j + 1].id = element.attrib["id"]
         /\ shaped.way_nodes[j + 1].node_id = NdChildren[j + 1].attrib["ref"]
         /\ shaped.way_nodes[j + 1].position = j

\* a way with two different nd children and a tag between them
C8_Witness ==
  /\ Extracted
  /\ element.tag = "way"
  /\ Len(element.children) = 3
  /\ element.children[2].tag = "tag"
  /\ Len(shaped.way_nodes) = 2
  /\ shaped.way_nodes[1].node_id # shaped.way_nodes[2].node_id

(***************************************************************************)
(* process_map, run on a document whose elements arrive one at a time.     *)
(* The n-th top-level element of the document has id n; the verdict of the *)
(* schema validator on its shaped record comes with it.                    *)
(***************************************************************************)
DocChildren ==
  { <<>>,
    <<Tag(<<"a","d","d","r",":","p","o","s","t","c","o","d","e">>, <<"9","8","1","9">>)>>,
    <<Nd(<<"7">>), Tag(<<"n","a","m","e">>, <<"E","l","m"," ","S","t">>), Nd(<<"8">>)>>,
    <<Tag(<<"b","a","d"," ","k","e","y">>, <<"x">>), Tag(<<"a",":","b">>, <<"x">>)>> }

DocElements(n) ==
  {[tag |-> "node", attrib |-> a, children |-> c] :
     a \in {Attrib(NODE_FIELDS, str(n)), Without(Attrib(NODE_FIELDS, str(n)), "uid")},
     c \in DocChildren}
  \cup
  {[tag |-> "way", attrib |-> a, children |-> c] :
     a \in {Attrib(WAY_FIELDS, str(n)), Without(Attrib(WAY_FIELDS, str(n)), "uid")},
     c \in DocChildren}
  \cup
  {[tag |-> "relation", attrib |-> Attrib(WAY_FIELDS, str(n)), children |-> <<>>]}

Init ==
  /\ pc = "start"
  /\ validate \in BOOLEAN
  /\ stream = <<>>
  /\ el = NotShaped
  /\ tables = [t \in TABLES |-> <<>>]
  /\ log = <<>>
  /\ NormalizerIdle
  /\ ExtractorIdle

\* the files are opened for writing and the headers written
OpenTables ==
  /\ pc = "start"
  /\ tables' = [t \in TABLES |-> <<header(FIELDS[t])>>]
  /\ pc' = "loop"
  /\ UNCHANGED <<arg, ret, element, shaped, validate, stream, el, log>>

\* the parser reads the next element; one that get_element yields is
\* extracted and, if asked, validated
TakeElement ==
  /\ pc = "loop"
  /\ Len(stream) < MaxElements
  /\ \E e \in DocElements(Len(stream) + 1), valid \in (IF validate THEN BOOLEAN ELSE {TRUE}) :
       /\ stream' = Append(stream, [elem |-> e, valid |-> valid])
       /\ IF e.tag \notin get_element_tags
          THEN UNCHANGED <<pc, el>>
          ELSE LET r == extract_element(e, regular)
               IN IF r.status = "KeyError"
                  THEN pc' = "failed" /\ UNCHANGED el
                  ELSE IF r.status = "None"
                  THEN pc' = "loop" /\ el' = r
                  ELSE IF validate = TRUE /\ validate_element(valid)
                  THEN pc' = "failed" /\ el' = r
                  ELSE el' = r /\ pc' = (IF e.tag = "node" THEN "nodes" ELSE "ways")
  /\ UNCHANGED <<arg, ret, element, shaped, validate, tables, log>>

\* a write call: its rows go to the table, and the call is logged
Write(table, rows) ==
  /\ tables' = [tables EXCEPT ![table] = @ \o rows]
  /\ log' = Append(log, [table |-> table, element |-> Len(stream), rows |-> Len(rows)])
  /\ pc' = next_pc(table)
  /\ UNCHANGED <<arg, ret, element, shaped, validate, stream, el>>

WriteNode ==
  pc = "nodes" /\ Write("nodes", <<writerow(el.node, NODE_FIELDS)>>)

WriteNodeTags ==
  pc = "nodes_tags" /\ Write("nodes_tags", writerows(el.node_tags, NODE_TAGS_FIELDS))

WriteWay ==
  pc = "ways" /\ Write("ways", <<writerow(el.way, WAY_FIELDS)>>)

WriteWayNodes ==
  pc = "ways_nodes" /\ Write("ways_nodes", writerows(el.way_nodes, WAY_NODES_FIELDS))

WriteWayTags ==
  pc = "ways_tags" /\ Write("ways_tags", writerows(el.way_tags, WAY_TAGS_FIELDS))

\* the document has no further element: the loop and the run end
EndOfStream ==
  /\ pc = "loop"
  /\ pc' = "done"
  /\ UNCHANGED <<arg, ret, element, shaped, validate, stream, el, tables, log>>

Next ==
  \/ OpenTables
  \/ TakeElement
  \/ WriteNode
  \/ WriteNodeTags
  \/ WriteWay
  \/ WriteWayNodes
  \/ WriteWayTags
  \/ EndOfStream

Spec == Init /\ [][Next]_vars

(***************************************************************************)
(* Properties of process_map.                                              *)
(***************************************************************************)
Yielded(i) == stream[i].elem.tag \in {"node", "way"}

RequiredFields(kind) == IF kind = "node" THEN NODE_FIELDS ELSE WAY_FIELDS

\* the i-th element lacks a required attribute, or validation is on and the
\* validator rejects its shaped record
ElementFails(i) ==
  /\ Yielded(i)
  /\ \/ \E f \in Range(RequiredFields(stream[i].elem.tag)) :
          f \notin DOMAIN stream[i].elem.attrib
     \/ validate /\ ~stream[i].valid

\* the rows of the i-th element in a table
RowsOf(i, table) ==
  LET e == stream[i].elem
      r == extract_element(e, regular)
  IN IF ~Yielded(i) THEN <<>>
     ELSE CASE table = "nodes" ->
                 IF e.tag = "node" THEN <<writerow(r.node, NODE_FIELDS)>> ELSE <<>>
            [] table = "nodes_tags" ->
                 IF e.tag = "node" THEN writerows(r.node_tags, NODE_TAGS_FIELDS) ELSE <<>>
            [] table = "ways" ->
                 IF e.tag = "way" THEN <<writerow(r.way, WAY_FIELDS)>> ELSE <<>>
            [] table = "ways_nodes" ->
                 IF e.tag = "way" THEN writerows(r.way_nodes, WAY_NODES_FIELDS) ELSE <<>>
            [] table = "ways_tags" ->
                 IF e.tag = "way" THEN writerows(r.way_tags, WAY_TAGS_FIELDS) ELSE <<>>

\* the header of a table followed by the rows of the elements 1..n
RECURSIVE RowsUpTo(_, _)
RowsUpTo(n, table) ==
  IF n = 0 THEN <<header(FIELDS[table])>> ELSE RowsUpTo(n - 1, table) \o RowsOf(n, table)

\* C7: when extraction or validation fails on the i-th element the run
\* stops there: the tables hold the headers and the rows of the elements
\* before it, and no further element is read.
C7_AbortOnFailure ==
  \A i \in 1..Len(stream) :
    ElementFails(i) =>
      /\ pc = "failed"
      /\ Len(stream) = i
      /\ \A t \in TABLES : tables[t] = RowsUpTo(i - 1, t)

\* a run with validation on that wrote a way with nodes and tags and then
\* met an element with every attribute that the validator rejects
C7_Witness ==
  /\ pc = "failed"
  /\ validate
  /\ Len(stream) = 2
  /\ ~stream[2].valid
  /\ DOMAIN stream[2].elem.attrib = Range(RequiredFields(stream[2].elem.tag))
  /\ Len(tables["ways_nodes"]) = 3
  /\ Len(tables["ways_tags"]) = 2

\* the write calls of the i-th element, the tables in the given order
WritesOf(i, order) ==
  IF ~Yielded(i) \/ ElementFails(i) THEN <<>>
  ELSE LET ts == order[stream[i].elem.tag]
       IN [j \in 1..Len(ts) |->
             [table |-> ts[j], element |-> i, rows |-> Len(RowsOf(i, ts[j]))]]

RECURSIVE WritesUpTo(_, _)
WritesUpTo(n, order) ==
  IF n = 0 THEN <<>> ELSE WritesUpTo(n - 1, order) \o WritesOf(n, order)

IsPrefix(a, b) == Len(a) <= Len(b) /\ a = SubSeq(b, 1, Len(a))

\* the calls that wrote at least one row
NonEmpty(calls) == SelectSeq(calls, LAMBDA c : c.rows > 0)

\* the write calls made so far are those of the elements read so far, each
\* element's calls in the given order and before those of the next element;
\* between two elements none is missing; a call that writes no row does
\* not count
WritesFollow(order) ==
  LET made == NonEmpty(log)
      due == NonEmpty(WritesUpTo(Len(stream), order))
  IN /\ IsPrefix(made, due)
     /\ pc \in {"loop", "done", "failed"} => made = due

\* C10: the writes of an element are its attribute row, then its Tag
\* Records, then (for a way) its Way-Node Records, and they all precede the
\* writes of the next element.
C10_TagsBeforeWayNodes ==
  WritesFollow([node |-> <<"nodes", "nodes_tags">>,
                way |-> <<"ways", "ways_tags", "ways_nodes">>])

\* C10, amended: the writes of an element are its attribute row, then for a
\* node its Tag Records, for a way its Way-Node Records and then its Tag
\* Records, and they all precede the writes of the next element.
C10_WayNodesBeforeTags ==
  WritesFollow([node |-> <<"nodes", "nodes_tags">>,
                way |-> <<"ways", "ways_nodes", "ways_tags">>])

\* a way with nodes and tags written in full, then a node being written
C10_Witness ==
  /\ Len(log) = 4
  /\ log[2].table = "ways_nodes" /\ log[2].rows = 2
  /\ log[3].table = "ways_tags" /\ log[3].rows = 1
  /\ log[4].table = "nodes" /\ log[4].element > log[3].element

=============================================================================
